---- MODULE Spec2Model ----
(***************************************************************************)
(* A model of the PEARL networks (MLPEncoder, TanhGaussianPolicy) and of   *)
(* the PEARL trainer script.                                               *)
(*                                                                         *)
(* Tensors are sequences (rows) of sequences (columns).  Real numbers are  *)
(* exact rationals <<n, d>> in lowest terms with d > 0, extended the way   *)
(* IEEE arithmetic extends them: <<1, 0>> is +inf, <<-1, 0>> is -inf and   *)
(* <<0, 0>> is NaN.  Transcendental functions are kept exact: softplus on  *)
(* the bounded grid of raw network outputs, tanh / exp / log as terms.     *)
(***************************************************************************)
EXTENDS Integers, Sequences, FiniteSets, TLC

VARIABLES
    \* ---- MLPEncoder (src/src/pearl/algorithm/networks.py:64-150)
    latent_dim,      \* self.latent_dim
    output_dim,      \* self.output_dim
    z_mean,          \* self.z_mean : num_tasks x latent_dim
    z_var,           \* self.z_var  : num_tasks x latent_dim
    task_z,          \* self.task_z : num_tasks x latent_dim samples
    context,         \* self.context
    rng,             \* number of rsample() draws taken from the generator so far
    kl_div,          \* value returned by the last compute_kl_div
    z_epoch,         \* history: the value of rng when z_mean / z_var were last written
    last,            \* the operation that returned last, with its arguments
    \* ---- product_of_gaussians called on its own
    pog_in,          \* [mean, var] : N x D inputs
    pog_out,         \* <<pog_mean, pog_var>> or None
    \* ---- TanhGaussianPolicy.forward (networks.py:157-216)
    is_deterministic,
    pol_in,          \* the two heads' outputs [mean, log_std] and the noise
    action,          \* returned action
    log_prob,        \* returned log_prob
    \* ---- trainer() (src/pearl/trainer.py:22-59)
    args_env,        \* args.env
    pc,              \* position in trainer()
    config,          \* the local `config`: a config name or Unbound
    cfg,             \* what the config modules and the env supply
    tasks,           \* env.get_all_task_idx()
    created,         \* objects created so far
    train_tasks,     \* MetaLearner(train_tasks=...)
    eval_tasks,      \* MetaLearner(eval_tasks=...)
    error            \* exception that ended trainer(), or None

encVars == <<latent_dim, output_dim, z_mean, z_var, task_z, context, rng, kl_div, z_epoch,
            last>>
pogVars == <<pog_in, pog_out>>
polVars == <<is_deterministic, pol_in, action, log_prob>>
trVars == <<args_env, pc, config, cfg, tasks, created, train_tasks, eval_tasks, error>>
vars == <<encVars, pogVars, polVars, trVars>>

None == "None"

\* ------------------------------------------------------------------ bounds
MaxTasks == 2
MaxTrans == 2
MaxLatent == 2
MaxDraws == 4

\* ------------------------------------------------- extended rational numbers
Abs(x) == IF x < 0 THEN -x ELSE x
Sign(x) == IF x < 0 THEN -1 ELSE IF x > 0 THEN 1 ELSE 0

RECURSIVE GCD(_, _)
GCD(a, b) == IF b = 0 THEN a ELSE GCD(b, a % b)

Norm(n, d) ==
    IF d = 0 THEN <<Sign(n), 0>>
    ELSE LET g == GCD(Abs(n), Abs(d))
         IN  <<Sign(d) * (n \div g), Abs(d) \div g>>

R(n) == <<n, 1>>
Zero == <<0, 1>>
One == <<1, 1>>
Inf == <<1, 0>>
NaN == <<0, 0>>
IsFinite(a) == a[2] # 0
IsNaN(a) == a = NaN

RAdd(a, b) ==
    IF IsNaN(a) \/ IsNaN(b) THEN NaN
    ELSE IF ~IsFinite(a) /\ ~IsFinite(b) THEN (IF a = b THEN a ELSE NaN)
    ELSE IF ~IsFinite(a) THEN a
    ELSE IF ~IsFinite(b) THEN b
    ELSE LET g == GCD(a[2], b[2])
         IN  Norm(a[1] * (b[2] \div g) + b[1] * (a[2] \div g), (a[2] \div g) * b[2])

RMul(a, b) ==
    IF ~IsFinite(a) \/ ~IsFinite(b) THEN
        (IF IsNaN(a) \/ IsNaN(b) THEN NaN ELSE <<Sign(a[1]) * Sign(b[1]), 0>>)
    ELSE IF a[1] = 0 \/ b[1] = 0 THEN Zero
    ELSE LET g1 == GCD(Abs(a[1]), b[2])
             g2 == GCD(Abs(b[1]), a[2])
         IN  Norm((a[1] \div g1) * (b[1] \div g2), (a[2] \div g2) * (b[2] \div g1))

\* torch.reciprocal: 1/0 is inf, 1/inf is 0
RRecip(a) ==
    IF IsNaN(a) THEN NaN
    ELSE IF ~IsFinite(a) THEN Zero
    ELSE IF a[1] = 0 THEN Inf
    ELSE <<Sign(a[1]) * a[2], Abs(a[1])>>

RDiv(a, b) == RMul(a, RRecip(b))

\* a < b; false when either is NaN
RLt(a, b) ==
    IF IsNaN(a) \/ IsNaN(b) THEN FALSE
    ELSE IF ~IsFinite(a) \/ ~IsFinite(b) THEN
        (IF IsFinite(a) THEN b = Inf ELSE IF IsFinite(b) THEN a[1] < 0 ELSE a[1] < b[1])
    ELSE a[1] * b[2] < b[1] * a[2]

RPos(a) == RLt(Zero, a)

\* sum of a column of rationals, left to right
RECURSIVE RSum(_)
RSum(s) == IF s = <<>> THEN Zero ELSE RAdd(RSum(SubSeq(s, 1, Len(s) - 1)), s[Len(s)])

\* ---------------------------------------------------- product_of_gaussians
\* torch.clamp(var, min=1e-7)
VarMin == <<1, 10000000>>
ClampMin(v, lo) == IF IsNaN(v) THEN NaN ELSE IF RLt(v, lo) THEN lo ELSE v

Width(m) == Len(m[1])

\* a tensor as an explicit sequence (of sequences)
ToSeq(f) == SubSeq(f, 1, Len(f))
ToSeq2(m) == ToSeq([n \in 1..Len(m) |-> ToSeq(m[n])])

\* product_of_gaussians with the means summed unweighted
product_of_gaussians_unweighted(mean, var) ==
    LET clamped == ToSeq2([n \in 1..Len(var) |->
                              [d \in 1..Width(var) |-> ClampMin(var[n][d], VarMin)]])
        pog_var == ToSeq([d \in 1..Width(var) |->
                       RDiv(One, RSum(ToSeq([n \in 1..Len(var) |-> RRecip(clamped[n][d])])))])
        pog_mean == ToSeq([d \in 1..Width(var) |->
                       RMul(pog_var[d], RSum(ToSeq([n \in 1..Len(var) |-> mean[n][d]])))])
    IN  <<pog_mean, pog_var>>

\* product_of_gaussians without the clamp of the variances
product_of_gaussians_noclamp(mean, var) ==
    LET pog_var == ToSeq([d \in 1..Width(var) |->
                       RDiv(One, RSum(ToSeq([n \in 1..Len(var) |-> RRecip(var[n][d])])))])
        pog_mean == ToSeq([d \in 1..Width(var) |->
                       RMul(pog_var[d],
                            RSum(ToSeq([n \in 1..Len(var) |-> RDiv(mean[n][d], var[n][d])])))])
    IN  <<pog_mean, pog_var>>

\* mean, var : N x D.  Returns <<pog_mean, pog_var>>, each of length D.
product_of_gaussians(mean, var) ==
    LET clamped == ToSeq2([n \in 1..Len(var) |->
                              [d \in 1..Width(var) |-> ClampMin(var[n][d], VarMin)]])
        pog_var == ToSeq([d \in 1..Width(var) |->
                       RDiv(One, RSum(ToSeq([n \in 1..Len(var) |-> RRecip(clamped[n][d])])))])
        pog_mean == ToSeq([d \in 1..Width(var) |->
                       RMul(pog_var[d],
                            RSum(ToSeq([n \in 1..Len(var) |-> RDiv(mean[n][d], clamped[n][d])])))])
    IN  <<pog_mean, pog_var>>

\* ------------------------------------------------------------- MLPEncoder
\* The (observation, action, reward) transitions a context is made of.
Transitions == {1, 2}

\* The encoder MLP with its weights fixed: one output row per transition, the
\* first latent_dim entries the means, the rest the raw (pre-softplus) variances.
MeanOut == <<R(-1), R(0), R(2)>>
RawVarOut == <<-200, 0, 2>>
MLP_forward(c, out_dim, lat_dim) ==
    [j \in 1..out_dim |->
        IF j <= lat_dim THEN MeanOut[((c + j) % 3) + 1]
        ELSE R(RawVarOut[((c + 2 * j) % 3) + 1])]

\* FlattenMLP.forward on a T x N context: the MLP acts on the last dimension,
\* i.e. on every transition by itself.
forward(ctx, out_dim, lat_dim) ==
    [t \in 1..Len(ctx) |-> [n \in 1..Len(ctx[t]) |-> MLP_forward(ctx[t][n], out_dim, lat_dim)]]

\* A tensor's storage, row-major.
RECURSIVE Flatten(_)
Flatten(s) == IF s = <<>> THEN <<>> ELSE s[1] \o Flatten(Tail(s))
Storage(x) == Flatten(Flatten(x))

\* a view that reads the storage as N x T x out_dim
view_task_minor(store, T, out_dim) ==
    LET N == Len(store) \div (T * out_dim)
    IN  [t \in 1..T |-> [n \in 1..N |-> [j \in 1..out_dim |->
            store[((n - 1) * T + (t - 1)) * out_dim + j]]]]

\* params.view(T, -1, out_dim) of a tensor with the given storage
view(store, T, out_dim) ==
    LET N == Len(store) \div (T * out_dim)
    IN  [t \in 1..T |-> [n \in 1..N |-> [j \in 1..out_dim |->
            store[((t - 1) * N + (n - 1)) * out_dim + j]]]]

\* F.softplus on the grid of raw outputs, to the nearest quarter: log1p(exp(x))
\* is exactly 0 once exp(x) underflows (x below about -104), softplus(0) = ln 2
\* = 0.693.., softplus(2) = 2.127.., and above the threshold of 20 it returns x
softplus(x) ==
    CASE RLt(x, R(-104)) -> Zero
      [] x = R(0) -> <<3, 4>>
      [] x = R(2) -> <<9, 4>>
      [] RLt(R(20), x) -> x

Zeros(rows, cols) == [i \in 1..rows |-> [d \in 1..cols |-> Zero]]
Ones(rows, cols) == [i \in 1..rows |-> [d \in 1..cols |-> One]]

Min(a, b) == IF a < b THEN a ELSE b

\* sample_z: one dist.rsample() per task row, mean + sqrt(var) * eps with eps the
\* generator's next draw.  zip stops at the shorter of z_mean and z_var.
sampled_z(zm, zv, drawn) ==
    [i \in 1..Min(Len(zm), Len(zv)) |-> [loc |-> zm[i], var |-> zv[i], eps |-> drawn + i]]
draws_needed(zm, zv) == Min(Len(zm), Len(zv))

\* clear_z resetting the variance to zeros
clear_z_var_zeros(num_tasks) == Zeros(num_tasks, latent_dim)

clear_z_mean(num_tasks) == Zeros(num_tasks, latent_dim)
clear_z_var(num_tasks) == Ones(num_tasks, latent_dim)
clear_z_context == None

clear_z(num_tasks) ==
    /\ rng + num_tasks <= MaxDraws
    /\ z_mean' = clear_z_mean(num_tasks)
    /\ z_var' = clear_z_var(num_tasks)
    /\ task_z' = sampled_z(z_mean', z_var', rng)
    /\ rng' = rng + draws_needed(z_mean', z_var')
    /\ context' = clear_z_context
    /\ kl_div' = None
    /\ z_epoch' = rng
    /\ last' = [op |-> "clear_z", num_tasks |-> num_tasks]
    /\ UNCHANGED <<latent_dim, output_dim>>

sample_z ==
    /\ rng + draws_needed(z_mean, z_var) <= MaxDraws
    /\ task_z' = sampled_z(z_mean, z_var, rng)
    /\ rng' = rng + draws_needed(z_mean, z_var)
    /\ kl_div' = None
    /\ last' = [op |-> "sample_z"]
    /\ UNCHANGED <<latent_dim, output_dim, z_mean, z_var, context, z_epoch>>

\* params[..., :latent_dim] and F.softplus(params[..., latent_dim:]) of one task
posterior_means(rows, lat_dim) == [n \in 1..Len(rows) |-> SubSeq(rows[n], 1, lat_dim)]
posterior_vars(rows, lat_dim) ==
    [n \in 1..Len(rows) |->
        [j \in 1..(Len(rows[n]) - lat_dim) |-> softplus(rows[n][lat_dim + j])]]

\* the z_params list of infer_posterior: one product of Gaussians per task
infer_z_params(ctx, out_dim, lat_dim) ==
    LET params == view(Storage(forward(ctx, out_dim, lat_dim)), Len(ctx), out_dim)
    IN  [t \in 1..Len(ctx) |->
            LET rows == ToSeq2(params[t])
            IN  product_of_gaussians(ToSeq2(posterior_means(rows, lat_dim)),
                                     ToSeq2(posterior_vars(rows, lat_dim)))]

\* infer_posterior without the closing sample_z
infer_posterior_stale(ctx) ==
    LET z_params == infer_z_params(ctx, output_dim, latent_dim)
    IN  /\ rng + Len(ctx) <= MaxDraws
        /\ z_mean' = ToSeq([t \in 1..Len(ctx) |-> z_params[t][1]])
        /\ z_var' = ToSeq([t \in 1..Len(ctx) |-> z_params[t][2]])
        /\ kl_div' = None
        /\ z_epoch' = rng
        /\ last' = [op |-> "infer_posterior", context |-> ctx]
        /\ UNCHANGED <<latent_dim, output_dim, context, task_z, rng>>

\* every context of at most MaxTasks tasks with the same 1..MaxTrans transitions each
Contexts ==
    UNION {[1..T -> [1..N -> Transitions]] : T \in 1..MaxTasks, N \in 1..MaxTrans}

\* z_params of every context for every latent_dim (output_dim = 2 * latent_dim,
\* as trainer() sets it), evaluated once and looked up by infer_posterior
z_params_table ==
    ToSeq([L \in 1..MaxLatent |-> [ctx \in Contexts |->
        LET zp == infer_z_params(ctx, 2 * L, L)
        IN  ToSeq([t \in 1..Len(ctx) |-> <<ToSeq(zp[t][1]), ToSeq(zp[t][2])>>])] @@ <<>>])

infer_posterior(ctx) ==
    LET z_params == z_params_table[latent_dim][ctx]
    IN  /\ rng + Len(ctx) <= MaxDraws
        /\ z_mean' = [t \in 1..Len(ctx) |-> z_params[t][1]]
        /\ z_var' = [t \in 1..Len(ctx) |-> z_params[t][2]]
        /\ task_z' = sampled_z(z_mean', z_var', rng)
        /\ rng' = rng + draws_needed(z_mean', z_var')
        /\ kl_div' = None
        /\ z_epoch' = rng
        /\ last' = [op |-> "infer_posterior", context |-> ctx]
        /\ UNCHANGED <<latent_dim, output_dim, context>>

\* the prior of compute_kl_div: Normal(zeros, ones)
prior_mean == Zero
prior_var == One

\* kl_divergence(Normal(m, sqrt(v)), Normal(prior_mean, sqrt(prior_var))) of one
\* entry: zero exactly when the two distributions are the same, positive otherwise
kl_divergence(m, v) ==
    IF m = prior_mean /\ v = prior_var THEN <<>> ELSE << <<"kl", m, v>> >>

\* the stacked divergences summed: the sequence of the terms that are not zero
kl_sum(zm, zv) ==
    Flatten([i \in 1..Min(Len(zm), Len(zv)) |->
                Flatten([d \in 1..Len(zm[i]) |-> kl_divergence(zm[i][d], zv[i][d])])])

compute_kl_div ==
    /\ kl_div' = kl_sum(z_mean, z_var)
    /\ last' = [op |-> "compute_kl_div"]
    /\ UNCHANGED <<latent_dim, output_dim, z_mean, z_var, task_z, context, rng, z_epoch>>

\* the agent storing the context collected so far on the encoder
update_context ==
    /\ context' = "collected"
    /\ kl_div' = None
    /\ last' = [op |-> "update_context"]
    /\ UNCHANGED <<latent_dim, output_dim, z_mean, z_var, task_z, rng, z_epoch>>

PogIdle == /\ pog_in = None /\ pog_out = None
PolIdle == /\ is_deterministic = FALSE /\ pol_in = None /\ action = None /\ log_prob = None
TrIdle ==
    /\ args_env = None /\ pc = None /\ config = None /\ cfg = None /\ tasks = None
    /\ created = {} /\ train_tasks = None /\ eval_tasks = None /\ error = None
EncIdle ==
    /\ latent_dim = 0 /\ output_dim = 0 /\ z_mean = None /\ z_var = None /\ task_z = None
    /\ context = None /\ rng = 0 /\ kl_div = None /\ z_epoch = 0 /\ last = None

\* MLPEncoder.__init__: the fields, then clear_z() with num_tasks = 1
Init ==
    /\ latent_dim \in 1..MaxLatent
    /\ output_dim = 2 * latent_dim
    /\ z_mean = Zeros(1, latent_dim)
    /\ z_var = Ones(1, latent_dim)
    /\ task_z = sampled_z(z_mean, z_var, 0)
    /\ rng = 1
    /\ context = None
    /\ kl_div = None
    /\ z_epoch = 0
    /\ last = [op |-> "__init__"]
    /\ PogIdle /\ PolIdle /\ TrIdle

Next ==
    \/ \E num_tasks \in 1..MaxTasks : clear_z(num_tasks) /\ UNCHANGED <<pogVars, polVars, trVars>>
    \/ sample_z /\ UNCHANGED <<pogVars, polVars, trVars>>
    \/ \E ctx \in Contexts : infer_posterior(ctx) /\ UNCHANGED <<pogVars, polVars, trVars>>
    \/ compute_kl_div /\ UNCHANGED <<pogVars, polVars, trVars>>
    \/ update_context /\ UNCHANGED <<pogVars, polVars, trVars>>

Spec == Init /\ [][Next]_vars

\* ------------------------------- product_of_gaussians called on its own
\* the (mean, var) pairs an input is drawn from: a variance of exactly 0, one
\* below the clamp, and two above it
PogPairs ==
    { <<R(-1), Zero>>, <<R(1), <<1, 20000000>> >>, <<R(3), <<1, 2>> >>, <<R(0), R(2)>> }

\* the widths (latent dimensions) of the inputs
PogWidths == {1, 2}

PogInputs ==
    UNION {[1..N -> [1..D -> PogPairs]] : N \in 1..MaxTrans, D \in PogWidths}

InitPog ==
    /\ \E x \in PogInputs :
          pog_in = [mean |-> [n \in 1..Len(x) |-> [d \in 1..Len(x[n]) |-> x[n][d][1]]],
                    var |-> [n \in 1..Len(x) |-> [d \in 1..Len(x[n]) |-> x[n][d][2]]]]
    /\ pog_out = None
    /\ EncIdle /\ PolIdle /\ TrIdle

call_product_of_gaussians ==
    /\ pog_out = None
    /\ pog_out' = LET r == product_of_gaussians(pog_in.mean, pog_in.var)
                  IN  <<ToSeq(r[1]), ToSeq(r[2])>>
    /\ UNCHANGED <<pog_in, encVars, polVars, trVars>>

NextPog == call_product_of_gaussians

SpecPog == InitPog /\ [][NextPog]_vars

\* ------------------------------------------------------ TanhGaussianPolicy
LOG_SIG_MAX == 2
LOG_SIG_MIN == -20
MaxActDim == 2

\* torch.clamp(x, lo, hi) on integers
clamp(x, lo, hi) == IF x < lo THEN lo ELSE IF x > hi THEN hi ELSE x

\* Real values are exact terms: Num(k) is the integer k, the others are built by
\* the functions below.
Num(k) == [f |-> "num", n |-> k]
\* torch.tanh(x); tanh(x) = x only at 0
tanh(x) == IF x = Num(0) THEN Num(0) ELSE [f |-> "tanh", x |-> x]
\* torch.exp(k)
exp(k) == IF k = 0 THEN Num(1) ELSE [f |-> "exp", n |-> k]
\* Normal(mean, std).rsample(): mean + std * eps, eps the N(0,1) draw
rsample(mean, std, eps) ==
    IF eps = 0 THEN Num(mean)
    ELSE IF std = Num(1) THEN Num(mean + eps)
    ELSE [f |-> "affine", loc |-> mean, scale |-> std, eps |-> eps]
\* Normal(mean, std).log_prob(value):
\* -(value - mean)^2 / (2 std^2) - log(std) - log(sqrt(2 pi))
normal_log_prob(mean, std, value) ==
    [f |-> "normal_log_prob", loc |-> mean, scale |-> std, value |-> value]
\* 2 * (np.log(2) - x - F.softplus(-2 * x))
tanh_correction(x) == [f |-> "2*(log2-x-softplus(-2x))", x |-> x]

\* the closing tanh left out
squash_missing(x) == x

\* the closing action = torch.tanh(action)
squash(x) == tanh(x)

\* the correction evaluated on the squashed action
policy_log_prob_of_squashed(mean, std, raw) ==
    [plus |-> normal_log_prob(mean, std, raw), minus |-> tanh_correction(tanh(raw))]

\* the log_prob of one action dimension: the density minus the correction
policy_log_prob(mean, std, raw) ==
    [plus |-> normal_log_prob(mean, std, raw), minus |-> tanh_correction(raw)]

\* forward(x), given what the two output heads return on x and, in stochastic
\* mode, the noise of rsample.  log_prob.sum(-1) is kept as the sequence of its
\* summands.
policy_forward(mean, log_std_out, eps) ==
    LET dims == 1..Len(mean)
        log_std == [d \in dims |-> clamp(log_std_out[d], LOG_SIG_MIN, LOG_SIG_MAX)]
        std == [d \in dims |-> exp(log_std[d])]
        raw == [d \in dims |->
                   IF is_deterministic THEN tanh(Num(mean[d])) ELSE rsample(mean[d], std[d], eps[d])]
    IN  /\ pol_in' = [mean |-> mean, log_std |-> log_std_out,
                      eps |-> IF is_deterministic THEN <<>> ELSE eps]
        /\ log_prob' = IF is_deterministic THEN None
                       ELSE ToSeq([d \in dims |-> policy_log_prob(mean[d], std[d], raw[d])])
        /\ action' = ToSeq([d \in dims |-> squash(raw[d])])
        /\ UNCHANGED is_deterministic

\* the values the heads and the noise take on the bounded set of inputs
PolMeans == {-2, 0, 1}
PolLogStds == {-25, 0, 3}
PolNoise == {-1, 0, 1}

InitPolicy ==
    /\ is_deterministic \in BOOLEAN
    /\ pol_in = [mean |-> <<>>, log_std |-> <<>>, eps |-> <<>>]
    /\ action = None /\ log_prob = None
    /\ EncIdle /\ PogIdle /\ TrIdle

\* one forward call on the head outputs of one input x
NextPolicy ==
    /\ action = None
    /\ \E A \in 1..MaxActDim :
        \E mean \in [1..A -> PolMeans], log_std_out \in [1..A -> PolLogStds],
           eps \in [1..A -> PolNoise] :
            policy_forward(mean, log_std_out, eps) /\ UNCHANGED <<encVars, pogVars, trVars>>

SpecPolicy == InitPolicy /\ [][NextPolicy]_vars

\* ------------------------------------------------------------- trainer()
MaxTaskCount == 3
Unbound == "Unbound"

\* Python's slice indices: a negative index counts from the end, and both ends
\* are clipped to the sequence
PyIndex(i, n) ==
    IF i < 0 THEN (IF i + n < 0 THEN 0 ELSE i + n)
    ELSE IF i > n THEN n ELSE i
PySlice(seq, start, stop) ==
    LET lo == PyIndex(start, Len(seq))
        hi == PyIndex(stop, Len(seq))
    IN  IF lo < hi THEN SubSeq(seq, lo + 1, hi) ELSE <<>>
\* seq[:stop] and seq[start:]
PySliceTo(seq, stop) == PySlice(seq, 0, stop)
PySliceFrom(seq, start) == PySlice(seq, start, Len(seq))

\* args.env: argparse accepts any string; 'walker' stands for every other value
EnvArgs == {"dir", "vel", "walker"}

InitTrainer ==
    /\ args_env \in EnvArgs
    /\ pc = "select"
    /\ config = Unbound
    /\ cfg \in [n_tasks : 0..MaxTaskCount, n_train_tasks : 0..MaxTaskCount,
                n_eval_tasks : 0..MaxTaskCount,
                star_import : SUBSET {"envs", "MetaLearner"}]
    /\ tasks = None /\ created = {} /\ train_tasks = None /\ eval_tasks = None
    /\ error = None
    /\ EncIdle /\ PogIdle /\ PolIdle

\* lines 23-28: the else branch evaluates the name NotImplementedError and goes on
select_config ==
    /\ pc = "select"
    /\ config' = IF args_env = "dir" THEN "cheetah_dir"
                 ELSE IF args_env = "vel" THEN "cheetah_vel"
                 ELSE config
    /\ pc' = "create_env"
    /\ UNCHANGED <<args_env, cfg, tasks, created, train_tasks, eval_tasks, error>>

\* lines 31-32: envs[config['env_name']](**config['env_params']), get_all_task_idx()
create_env ==
    /\ pc = "create_env"
    /\ IF "envs" \notin cfg.star_import
       THEN /\ error' = "NameError" /\ pc' = "raised" /\ UNCHANGED <<tasks, created>>
       ELSE IF config = Unbound
       THEN /\ error' = "UnboundLocalError" /\ pc' = "raised" /\ UNCHANGED <<tasks, created>>
       ELSE /\ created' = created \cup {"env"}
            /\ tasks' = [i \in 1..cfg.n_tasks |-> i - 1]
            /\ pc' = "create_agent"
            /\ UNCHANGED error
    /\ UNCHANGED <<args_env, config, cfg, train_tasks, eval_tasks>>

\* lines 34-50
create_agent ==
    /\ pc = "create_agent"
    /\ created' = created \cup {"agent"}
    /\ pc' = "create_meta_learner"
    /\ UNCHANGED <<args_env, config, cfg, tasks, train_tasks, eval_tasks, error>>

\* lines 52-59: the name MetaLearner is looked up before its arguments are built
create_meta_learner ==
    /\ pc = "create_meta_learner"
    /\ IF "MetaLearner" \notin cfg.star_import
       THEN /\ error' = "NameError" /\ pc' = "raised"
            /\ UNCHANGED <<created, train_tasks, eval_tasks>>
       ELSE /\ train_tasks' = PySliceTo(tasks, cfg.n_train_tasks)
            /\ eval_tasks' = PySliceFrom(tasks, -cfg.n_eval_tasks)
            /\ created' = created \cup {"meta_learner"}
            /\ pc' = "done"
            /\ UNCHANGED error
    /\ UNCHANGED <<args_env, config, cfg, tasks>>

NextTrainer ==
    \/ select_config /\ UNCHANGED <<encVars, pogVars, polVars>>
    \/ create_env /\ UNCHANGED <<encVars, pogVars, polVars>>
    \/ create_agent /\ UNCHANGED <<encVars, pogVars, polVars>>
    \/ create_meta_learner /\ UNCHANGED <<encVars, pogVars, polVars>>

SpecTrainer == InitTrainer /\ [][NextTrainer]_vars

\* ---------------------------------------------------------------- claims
Rows(m) == 1..Len(m)

\* C1: right after clear_z(num_tasks), z_mean is num_tasks x latent_dim zeros and
\* z_var is num_tasks x latent_dim ones, which are the prior's parameters, so that
\* the divergence from the prior is zero; task_z is a sample of num_tasks rows
\* drawn in this call; context is None.
C1_ClearZResetsToPrior ==
    last.op = "clear_z" =>
        /\ Len(z_mean) = last.num_tasks /\ Len(z_var) = last.num_tasks
        /\ \A i \in Rows(z_mean) :
              /\ Len(z_mean[i]) = latent_dim /\ Len(z_var[i]) = latent_dim
              /\ \A d \in 1..latent_dim : z_mean[i][d] = prior_mean /\ z_var[i][d] = prior_var
        /\ kl_sum(z_mean, z_var) = <<>>
        /\ Len(task_z) = last.num_tasks
        /\ \A i \in Rows(task_z) :
              /\ Len(task_z[i].loc) = latent_dim
              /\ task_z[i].eps > rng - last.num_tasks
              /\ task_z[i].eps <= rng
        /\ context = None

\* clear_z(2) called after an earlier operation had replaced the posterior
C1_Witness ==
    /\ last.op = "clear_z" /\ last.num_tasks = 2
    /\ z_epoch > 1

\* the product of Gaussians of the encoder's outputs on task t's transitions alone
C3_OwnTransitions(t) ==
    LET outs == [n \in 1..Len(last.context[t]) |->
                    MLP_forward(last.context[t][n], output_dim, latent_dim)]
        means == [n \in 1..Len(outs) |-> [d \in 1..latent_dim |-> outs[n][d]]]
        varis == [n \in 1..Len(outs) |-> [d \in 1..latent_dim |-> softplus(outs[n][latent_dim + d])]]
    IN  product_of_gaussians(ToSeq2(means), ToSeq2(varis))

\* C3: after infer_posterior on a T x N context, z_mean and z_var have T rows of
\* latent_dim entries, and row t is the product of Gaussians of the encoder's
\* outputs on task t's own transitions (first latent_dim outputs the means,
\* softplus of the others the variances).
C3_PosteriorPerTask ==
    last.op = "infer_posterior" =>
        /\ output_dim = 2 * latent_dim
        /\ Len(z_mean) = Len(last.context) /\ Len(z_var) = Len(last.context)
        /\ \A t \in Rows(last.context) :
              /\ Len(z_mean[t]) = latent_dim /\ Len(z_var[t]) = latent_dim
              /\ z_mean[t] = ToSeq(C3_OwnTransitions(t)[1])
              /\ z_var[t] = ToSeq(C3_OwnTransitions(t)[2])

C3_Witness ==
    /\ last.op = "infer_posterior" /\ latent_dim = 2
    /\ Len(last.context) = 2 /\ Len(last.context[1]) = 2
    /\ last.context[1] # last.context[2]
    /\ z_mean[1] # z_mean[2]

\* C8: every entry of z_var is strictly positive in every reachable state.
C8_VarPositive ==
    \A i \in Rows(z_var) : \A d \in 1..Len(z_var[i]) : RPos(z_var[i][d])

C8_Witness ==
    /\ last.op = "infer_posterior"
    /\ \E i \in Rows(z_var) : \E d \in 1..Len(z_var[i]) : RLt(z_var[i][d], VarMin)

\* C9: whenever an operation has returned, task_z has as many rows as z_mean and
\* z_var, was drawn from the current z_mean and z_var, and was drawn after they
\* were last written.
C9_SampleNotStale ==
    /\ Len(task_z) = Len(z_mean) /\ Len(task_z) = Len(z_var)
    /\ \A i \in Rows(task_z) :
          /\ task_z[i].loc = z_mean[i]
          /\ task_z[i].var = z_var[i]
          /\ task_z[i].eps > z_epoch

C9_Witness ==
    /\ last.op = "compute_kl_div" /\ Len(z_mean) = 2 /\ z_epoch > 0
    /\ kl_div # <<>>

\* the variance raised to 1e-7, the summed precision and the precision-weighted sum
C2_Raised(v) == IF RLt(v, <<1, 10000000>>) THEN <<1, 10000000>> ELSE v
C2_Precision(d) ==
    RSum([n \in 1..Len(pog_in.var) |-> RDiv(One, C2_Raised(pog_in.var[n][d]))])
C2_Weighted(d) ==
    RSum([n \in 1..Len(pog_in.var) |-> RDiv(pog_in.mean[n][d], C2_Raised(pog_in.var[n][d]))])

Elems(seq) == {seq[i] : i \in 1..Len(seq)}

\* membership of a term in [-1, 1]
C4_InUnit(x) == IF x.f = "num" THEN -1 <= x.n /\ x.n <= 1 ELSE x.f = "tanh"
\* C4: every component of the action forward returns lies in [-1, 1], in
\* deterministic and in stochastic mode.  A tanh term lies in (-1, 1); a raw
\* sample that is not an integer is not known to.
C4_ActionBounded ==
    action # None => \A d \in 1..Len(action) : C4_InUnit(action[d])

\* a stochastic call with one raw sample of -2 and one drawn at the clamped scale
C4_Witness ==
    /\ action # None /\ ~is_deterministic
    /\ \E d \in 1..Len(action) : pol_in.mean[d] = -2 /\ pol_in.eps[d] = 0
    /\ \E d \in 1..Len(action) : pol_in.eps[d] # 0 /\ pol_in.log_std[d] = 3

\* the clamped log_std, the scale exp(c) and the raw sample u of dimension d
C5_Clamped(x) == IF x < -20 THEN -20 ELSE IF x > 2 THEN 2 ELSE x
C5_Scale(d) ==
    LET c == C5_Clamped(pol_in.log_std[d])
    IN  IF c = 0 THEN [f |-> "num", n |-> 1] ELSE [f |-> "exp", n |-> c]
C5_Raw(d) ==
    IF pol_in.eps[d] = 0 THEN [f |-> "num", n |-> pol_in.mean[d]]
    ELSE IF C5_Clamped(pol_in.log_std[d]) = 0
         THEN [f |-> "num", n |-> pol_in.mean[d] + pol_in.eps[d]]
    ELSE [f |-> "affine", loc |-> pol_in.mean[d], scale |-> C5_Scale(d), eps |-> pol_in.eps[d]]
\* C5: in stochastic mode, with c the log_std clamped to [-20, 2] and
\* u = mean + exp(c) * eps the raw sample, the action is tanh(u) and log_prob is
\* the sum over the dimensions of the Gaussian log-density of u minus
\* 2 * (log 2 - u - softplus(-2u)).
C5_LogProbOfSquashed ==
    (action # None /\ ~is_deterministic) =>
        /\ Len(log_prob) = Len(action)
        /\ \A d \in 1..Len(action) :
              /\ action[d] = (IF C5_Raw(d) = [f |-> "num", n |-> 0] THEN C5_Raw(d)
                              ELSE [f |-> "tanh", x |-> C5_Raw(d)])
              /\ log_prob[d].plus =
                    [f |-> "normal_log_prob", loc |-> pol_in.mean[d], scale |-> C5_Scale(d),
                     value |-> C5_Raw(d)]
              /\ log_prob[d].minus = [f |-> "2*(log2-x-softplus(-2x))", x |-> C5_Raw(d)]

C5_Witness ==
    /\ action # None /\ ~is_deterministic /\ Len(action) = 2
    /\ pol_in.log_std[1] = 3 /\ pol_in.eps[1] = 1
    /\ pol_in.log_std[2] = -25 /\ pol_in.eps[2] = -1

\* C7: in deterministic mode forward returns action = tanh(mean), log_prob = None,
\* and draws no sample.
C7_DeterministicTanhOnce ==
    (action # None /\ is_deterministic) =>
        /\ \A d \in 1..Len(action) :
              action[d] = (IF pol_in.mean[d] = 0 THEN [f |-> "num", n |-> 0]
                           ELSE [f |-> "tanh", x |-> [f |-> "num", n |-> pol_in.mean[d]]])
        /\ log_prob = None
        /\ pol_in.eps = <<>>

\* C6: 'dir' selects cheetah_dir, 'vel' selects cheetah_vel, and any other value
\* ends trainer() in a NotImplementedError at the selection, nothing created.
C6_ConfigSelection ==
    pc # "select" =>
        /\ args_env = "dir" => config = "cheetah_dir"
        /\ args_env = "vel" => config = "cheetah_vel"
        /\ args_env \notin {"dir", "vel"} =>
              /\ pc = "raised" /\ error = "NotImplementedError" /\ created = {}

\* C10: with n_train_tasks + n_eval_tasks <= number of tasks, train_tasks and
\* eval_tasks share no task and eval_tasks has n_eval_tasks elements.
C10_TrainEvalDisjoint ==
    (pc = "done" /\ cfg.n_train_tasks + cfg.n_eval_tasks <= Len(tasks)) =>
        /\ Elems(train_tasks) \cap Elems(eval_tasks) = {}
        /\ Len(eval_tasks) = cfg.n_eval_tasks

====
